---- MODULE Spec2Model ----
(***************************************************************************)
(* Model of the two scripts of packages/convert-safetensors-onnx:          *)
(*   test_model_comparison.py  (ModelComparator: the cleaning of the two   *)
(*                              responses, their comparison, the run)      *)
(*   convert_smollm_official.py (conversion, smoke test, upload, __main__) *)
(* A Python str is a sequence of one-character strings. The alphabet is    *)
(* Latin-1 and the characters beyond it that the scripts treat specially   *)
(* (whitespace, the case folding of the label); a character above U+00FF   *)
(* is written by the name of its code point, as in "U+3000".               *)
(***************************************************************************)
EXTENDS Integers, Sequences, FiniteSets, TLC

(***************************************************************************)
(* Characters and the str methods the scripts use.                         *)
(***************************************************************************)

\* The str.isspace() characters: what strip(), split() and the regular
\* expression's \s treat as whitespace. The second line holds U+000B, U+001C
\* to U+001F, U+0085 and U+00A0.
Whitespace ==
    {" ", "\t", "\n", "\r", "\f",
     "", "", "", "", "", "", " ",
     "U+1680", "U+2000", "U+2001", "U+2002", "U+2003", "U+2004", "U+2005",
     "U+2006", "U+2007", "U+2008", "U+2009", "U+200A", "U+2028", "U+2029",
     "U+202F", "U+205F", "U+3000"}

UpperLetters == <<"A","B","C","D","E","F","G","H","I","J","K","L","M",
                  "N","O","P","Q","R","S","T","U","V","W","X","Y","Z">>

LowerLetters == <<"a","b","c","d","e","f","g","h","i","j","k","l","m",
                  "n","o","p","q","r","s","t","u","v","w","x","y","z">>

\* The capital letters of Latin-1 beyond ASCII and their small letters.
Latin1Upper == <<"À","Á","Â","Ã","Ä","Å","Æ","Ç","È","É","Ê","Ë","Ì",
                 "Í","Î","Ï","Ð","Ñ","Ò","Ó","Ô","Õ","Ö","Ø","Ù","Ú",
                 "Û","Ü","Ý","Þ">>

Latin1Lower == <<"à","á","â","ã","ä","å","æ","ç","è","é","ê","ë","ì",
                 "í","î","ï","ð","ñ","ò","ó","ô","õ","ö","ø","ù","ú",
                 "û","ü","ý","þ">>

AllUpper == UpperLetters \o Latin1Upper
AllLower == LowerLetters \o Latin1Lower

\* str.lower() of one character: a string, since the capital I with a dot
\* above (U+0130) becomes an i and a combining dot (U+0307).
LowerChar(c) ==
    IF \E i \in 1..Len(AllUpper) : AllUpper[i] = c
    THEN <<AllLower[CHOOSE i \in 1..Len(AllUpper) : AllUpper[i] = c]>>
    ELSE IF c = "U+0130" THEN <<"i", "U+0307">>
    ELSE <<c>>

\* str.lower()
RECURSIVE Lower(_)
Lower(s) == IF s = <<>> THEN <<>> ELSE LowerChar(s[1]) \o Lower(Tail(s))

\* A character of the text against a small letter of the pattern under
\* re.IGNORECASE: the letter, its capital, and for s the long s (U+017F), for
\* i the dotted capital I (U+0130) and the dotless i (U+0131).
IgnoreCaseMatches(c, p) ==
    \/ c = p
    \/ \E i \in 1..Len(UpperLetters) : UpperLetters[i] = c /\ LowerLetters[i] = p
    \/ p = "s" /\ c = "U+017F"
    \/ p = "i" /\ c \in {"U+0130", "U+0131"}

\* s[i:] of Python with the 1-based index of the first character kept.
Drop(s, i) == SubSeq(s, i, Len(s))

\* s.startswith(p)
StartsWith(s, p) == Len(s) >= Len(p) /\ SubSeq(s, 1, Len(p)) = p

\* str.replace(old, ""): the leftmost occurrences of old, none overlapping,
\* found in one scan from the left, are removed.
RECURSIVE RemoveAll(_, _)
RemoveAll(s, old) ==
    IF s = <<>> THEN <<>>
    ELSE IF StartsWith(s, old) THEN RemoveAll(Drop(s, Len(old) + 1), old)
    ELSE <<s[1]>> \o RemoveAll(Tail(s), old)

\* str.lstrip(), str.rstrip(), str.strip()
RECURSIVE LStrip(_)
LStrip(s) ==
    IF s # <<>> /\ s[1] \in Whitespace THEN LStrip(Tail(s)) ELSE s

RECURSIVE RStrip(_)
RStrip(s) ==
    IF s # <<>> /\ s[Len(s)] \in Whitespace
    THEN RStrip(SubSeq(s, 1, Len(s) - 1)) ELSE s

Strip(s) == RStrip(LStrip(s))

\* s.split("\n")[0]: the characters before the first newline.
RECURSIVE FirstLine(_)
FirstLine(s) ==
    IF s = <<>> \/ s[1] = "\n" THEN <<>>
    ELSE <<s[1]>> \o FirstLine(Tail(s))

\* set(s.split()): the maximal runs of non-whitespace characters.
RECURSIVE WordsFrom(_, _)
WordsFrom(s, cur) ==
    IF s = <<>> THEN (IF cur = <<>> THEN {} ELSE {cur})
    ELSE IF s[1] \in Whitespace
         THEN (IF cur = <<>> THEN {} ELSE {cur}) \cup WordsFrom(Tail(s), <<>>)
         ELSE WordsFrom(Tail(s), Append(cur, s[1]))

WordSet(s) == WordsFrom(s, <<>>)

(***************************************************************************)
(* The role markers and the role label.                                    *)
(***************************************************************************)
ImStart == <<"<","|","i","m","_","s","t","a","r","t","|",">">>
ImEnd == <<"<","|","i","m","_","e","n","d","|",">">>
AssistantLabel == <<"a","s","s","i","s","t","a","n","t">>

\* s contains t as a substring.
Contains(s, t) ==
    \E i \in 1..(Len(s) - Len(t) + 1) : SubSeq(s, i, i + Len(t) - 1) = t

(***************************************************************************)
(* The cleaning of compare_responses.                                      *)
(***************************************************************************)

\* response.replace("<|im_start|>", "").replace("<|im_end|>", "")
RemoveMarkers(s) == RemoveAll(RemoveAll(s, ImStart), ImEnd)

\* re.sub(r'^assistant\s*', '', s, flags=re.IGNORECASE): ^ matches at the
\* start of the string only, \s* takes all the whitespace that follows.
RemoveLabelCaseSensitive(s) ==
    IF StartsWith(s, AssistantLabel)
    THEN LStrip(Drop(s, Len(AssistantLabel) + 1))
    ELSE s
RemoveLabel(s) ==
    IF /\ Len(s) >= Len(AssistantLabel)
       /\ \A i \in 1..Len(AssistantLabel) :
              IgnoreCaseMatches(s[i], AssistantLabel[i])
    THEN LStrip(Drop(s, Len(AssistantLabel) + 1))
    ELSE s

\* The three statements that clean one response.
Clean(s) == FirstLine(Strip(RemoveLabel(RemoveMarkers(s))))

(***************************************************************************)
(* State.                                                                  *)
(***************************************************************************)
VARIABLES
    \* the cleaning applied to one raw response
    raw,            \* the response generate_response returned
    cleaned,        \* the result of the latest application of the cleaning
    applications,   \* how many times the cleaning was applied
    \* one call of compare_responses
    cmp_pc,         \* "ready" | "returned"
    result,         \* the dict compare_responses returned, or None
    printed,        \* what the branch taken when the match is not exact printed
    \* run_comprehensive_test
    run_pc,         \* "loop" | "summary" | "returned"
    test_prompts, test_configs, config_idx, prompt_idx,
    results, calls, summary,
    \* convert_smollm_official.py run as a script
    conv_pc,        \* the statement the script is at
    initial_dir,    \* local_path as the run found it
    local_dir,      \* local_path: [kind, files], a file being <<name, origin>>
    pad_token,      \* tokenizer.pad_token
    raised,         \* an exception was raised inside the conversion's try
    ret,            \* what convert_original_smollm_to_onnx returned
    test_ret,       \* what test_onnx_model returned
    answer,         \* the line input() read
    upload_choice,  \* the answer lower-cased and stripped
    upload_ret,     \* what upload returned
    remote,         \* the registry: [repo_exists, files]
    remote_calls,   \* the registry calls made, in order
    steps           \* the steps executed, in order

None == "None"

clean_vars == <<raw, cleaned, applications>>
cmp_vars == <<cmp_pc, result, printed>>
run_vars == <<run_pc, test_prompts, test_configs, config_idx, prompt_idx,
              results, calls, summary>>
conv_vars == <<conv_pc, initial_dir, local_dir, pad_token, raised, ret,
               test_ret, answer, upload_choice, upload_ret, remote,
               remote_calls, steps>>
vars == <<clean_vars, cmp_vars, run_vars, conv_vars>>

(***************************************************************************)
(* Bounds and the texts the tokenizer's decode is taken to return.         *)
(***************************************************************************)
MaxPieces == 3
MaxApplications == 2

MarkerHead == <<"<","|","i","m","_">>
StartTail == <<"s","t","a","r","t","|",">">>
EndTail == <<"e","n","d","|",">">>
AssistantCapital == <<"A","s","s","i","s","t","a","n","t">>
AssistantFolded == <<"a","U+017F","U+017F","U+0130","s","t","a","n","t">>

\* The last but one piece is a vertical tab (U+000B).
Pieces == {ImStart, ImEnd, MarkerHead, StartTail, EndTail, AssistantLabel,
           AssistantCapital, AssistantFolded, <<" ">>, <<"\n">>, <<"">>,
           <<"a">>}

RECURSIVE Concatenations(_)
Concatenations(n) ==
    IF n = 0 THEN {<<>>}
    ELSE LET shorter == Concatenations(n - 1)
         IN  shorter \cup {s \o p : s \in shorter, p \in Pieces}

ParisLine == <<"P","a","r","i","s"," ","i","s"," ","t","h","e"," ",
               "c","a","p","i","t","a","l",".">>
ExtraLine == <<"E","x","t","r","a"," ","l","i","n","e">>
ParisResponse ==
    ImStart \o AssistantCapital \o <<"\n">> \o ParisLine \o ImEnd
            \o <<"\n">> \o ExtraLine

DecodedTexts == Concatenations(MaxPieces) \cup {ParisResponse}

\* A generation: whether the output is longer than the input, and the decoded
\* text of the new tokens.
Generations ==
    [new_tokens : {TRUE}, text : DecodedTexts]
        \cup {[new_tokens |-> FALSE, text |-> <<>>]}

\* generate_response: the decoded new tokens, stripped; "" when the model
\* produced no token beyond the input.
generate_response(g) == IF g.new_tokens THEN Strip(g.text) ELSE <<>>

RawResponses == {generate_response(g) : g \in Generations}

(***************************************************************************)
(* The cleaning as a function of one raw response.                         *)
(***************************************************************************)
CleanIdle == raw = <<>> /\ cleaned = <<>> /\ applications = 0

CleanInit == raw \in RawResponses /\ cleaned = <<>> /\ applications = 0

\* The cleaning applied to the raw response, then to its own result.
ApplyClean ==
    /\ applications < MaxApplications
    /\ cleaned' = Clean(IF applications = 0 THEN raw ELSE cleaned)
    /\ applications' = applications + 1
    /\ UNCHANGED <<raw, cmp_vars, run_vars, conv_vars>>

(***************************************************************************)
(* compare_responses.                                                      *)
(***************************************************************************)
MaxPairPieces == 2

\* The last piece is two words with a no-break space (U+00A0) between them;
\* the one before it puts a space between a marker or the label and a word.
PairPieces == {ImEnd, AssistantLabel, <<" ">>, <<"\n">>, <<" ", "a">>,
               <<"a", " ", "b">>}

RECURSIVE PairConcatenations(_)
PairConcatenations(n) ==
    IF n = 0 THEN {<<>>}
    ELSE LET shorter == PairConcatenations(n - 1)
         IN  shorter \cup {s \o p : s \in shorter, p \in PairPieces}

PairGenerations ==
    [new_tokens : {TRUE}, text : PairConcatenations(MaxPairPieces)]
        \cup {[new_tokens |-> FALSE, text |-> <<>>]}

\* What the two calls of generate_response can return.
PairResponses == {generate_response(g) : g \in PairGenerations}

\* Elapsed wall-clock times of a generation, in ticks (a generation takes time).
Ticks == {1, 2}

SeattlePrompt ==
    <<"I"," ","w","a","n","t"," ","t","o"," ","p","l","a","n"," ","a"," ",
      "t","r","i","p"," ","t","o"," ","S","e","a","t","t","l","e","."," ",
      "W","h","e","r","e"," ","d","o"," ","I"," ","s","t","a","r","t","?">>

PromptHead ==
    <<"<","|","i","m","_","s","t","a","r","t","|",">","u","s","e","r","\n">>

PromptTail ==
    <<"<","|","i","m","_","e","n","d","|",">","\n","<","|","i","m","_","s",
      "t","a","r","t","|",">","k","n","o","w","l","e","d","g","e","\n","<",
      "|","s","i","l","|",">","<","|","i","m","_","e","n","d","|",">","\n">>

\* f"<|im_start|>user\n{user_input}<|im_end|>\n<|im_start|>knowledge\n<|sil|><|im_end|>\n"
ContextPrompt(user_input) == PromptHead \o user_input \o PromptTail

\* exact_match = onnx_cleaned == original_cleaned
ExactMatchOfRaw(original_response, onnx_response, original_cleaned, onnx_cleaned) ==
    onnx_response = original_response
ExactMatch(original_response, onnx_response, original_cleaned, onnx_cleaned) ==
    onnx_cleaned = original_cleaned

\* The guard of the similarity: if orig_tokens or onnx_tokens
SimilarityGuardBoth(orig_tokens, onnx_tokens) ==
    orig_tokens # {} /\ onnx_tokens # {}
SimilarityGuard(orig_tokens, onnx_tokens) ==
    orig_tokens # {} \/ onnx_tokens # {}

\* What the branch "if not exact_match" prints: the word-set similarity as
\* <<|intersection|, |union|>> (nothing when both sets are empty) and the
\* difference of the lengths.
Similarity(exact_match, original_cleaned, onnx_cleaned) ==
    LET orig_tokens == WordSet(original_cleaned)
        onnx_tokens == WordSet(onnx_cleaned)
    IN  IF exact_match
        THEN [branch |-> "exact", jaccard |-> <<>>, length_diff |-> <<>>]
        ELSE IF SimilarityGuard(orig_tokens, onnx_tokens)
        THEN [branch |-> "jaccard",
              jaccard |-> <<Cardinality(orig_tokens \cap onnx_tokens),
                            Cardinality(orig_tokens \cup onnx_tokens)>>,
              length_diff |-> <<Len(onnx_cleaned) - Len(original_cleaned)>>]
        ELSE [branch |-> "skipped", jaccard |-> <<>>,
              length_diff |-> <<Len(onnx_cleaned) - Len(original_cleaned)>>]

\* The dict compare_responses returns for a user input, the two responses
\* generate_response returned and their elapsed times.
Comparison(user_input, original_response, onnx_response, original_time, onnx_time) ==
    LET original_cleaned == Clean(original_response)
        onnx_cleaned == Clean(onnx_response)
    IN  [user_input |-> user_input,
         formatted_prompt |-> ContextPrompt(user_input),
         original_response |-> original_response,
         onnx_response |-> onnx_response,
         original_cleaned |-> original_cleaned,
         onnx_cleaned |-> onnx_cleaned,
         exact_match |-> ExactMatch(original_response, onnx_response,
                                    original_cleaned, onnx_cleaned),
         original_time |-> original_time,
         onnx_time |-> onnx_time]

NoResult == <<>>
NothingPrinted == [branch |-> "none", jaccard |-> <<>>, length_diff |-> <<>>]

CompareIdle == cmp_pc = "idle" /\ result = NoResult /\ printed = NothingPrinted

CompareInit == cmp_pc = "ready" /\ result = NoResult /\ printed = NothingPrinted

compare_responses ==
    /\ cmp_pc = "ready"
    /\ \E original_response \in PairResponses, onnx_response \in PairResponses,
          original_time \in Ticks, onnx_time \in Ticks :
          LET r == Comparison(SeattlePrompt, original_response, onnx_response,
                              original_time, onnx_time)
          IN  /\ result' = <<r>>
              /\ printed' = Similarity(r.exact_match, r.original_cleaned,
                                       r.onnx_cleaned)
    /\ cmp_pc' = "returned"
    /\ UNCHANGED <<clean_vars, run_vars, conv_vars>>

(***************************************************************************)
(* run_comprehensive_test.                                                 *)
(***************************************************************************)
MaxPrompts == 2
MaxConfigs == 2

\* test_prompts: the script's list holds the first prompt; the loop is
\* modelled for lists of up to MaxPrompts distinct prompts.
PromptList(n) ==
    [i \in 1..n |-> SeattlePrompt \o [j \in 1..(i - 1) |-> "?"]]

\* test_configs: the script's list holds the first parameter set.
ConfigList(n) ==
    [i \in 1..n |-> [max_new_tokens |-> 128 * i, temperature |-> 1,
                     do_sample |-> FALSE]]

\* The outcomes of the two generations of one test, with their elapsed times.
RunCases ==
    { [original |-> [new_tokens |-> TRUE, text |-> <<"a">>],
       onnx |-> [new_tokens |-> TRUE, text |-> <<"a">>],
       original_time |-> 2, onnx_time |-> 1],
      [original |-> [new_tokens |-> TRUE, text |-> <<"a", "\n", "b">>],
       onnx |-> [new_tokens |-> TRUE, text |-> ImStart \o <<"a">>],
       original_time |-> 1, onnx_time |-> 1],
      [original |-> [new_tokens |-> TRUE, text |-> <<"a">>],
       onnx |-> [new_tokens |-> TRUE, text |-> <<"b">>],
       original_time |-> 1, onnx_time |-> 2] }

\* {**result, 'config': config}
WithConfig(r, config) ==
    [user_input |-> r.user_input,
     formatted_prompt |-> r.formatted_prompt,
     original_response |-> r.original_response,
     onnx_response |-> r.onnx_response,
     original_cleaned |-> r.original_cleaned,
     onnx_cleaned |-> r.onnx_cleaned,
     exact_match |-> r.exact_match,
     original_time |-> r.original_time,
     onnx_time |-> r.onnx_time,
     config |-> config]

\* sum(1 for r in results if r['exact_match'])
RECURSIVE CountExactMatches(_)
CountExactMatches(rs) ==
    IF rs = <<>> THEN 0
    ELSE (IF rs[1].exact_match THEN 1 ELSE 0) + CountExactMatches(Tail(rs))

\* np.mean of the ratios onnx_time / original_time as a fraction
\* <<numerator, denominator>> over the product of the original times.
RECURSIVE TimeProduct(_)
TimeProduct(rs) ==
    IF rs = <<>> THEN 1 ELSE rs[1].original_time * TimeProduct(Tail(rs))

RECURSIVE RatioSum(_, _)
RatioSum(rs, d) ==
    IF rs = <<>> THEN 0
    ELSE (rs[1].onnx_time * d) \div rs[1].original_time + RatioSum(Tail(rs), d)

AverageSpeedup(rs) ==
    LET d == TimeProduct(rs) IN <<RatioSum(rs, d), Len(rs) * d>>

NoSummary ==
    [total_tests |-> 0, exact_matches |-> 0, avg_speedup |-> <<0, 1>>,
     faster |-> "none"]

\* The statistics printed after the loops.
Summary(rs) ==
    LET avg == AverageSpeedup(rs)
    IN  [total_tests |-> Len(rs),
         exact_matches |-> CountExactMatches(rs),
         avg_speedup |-> avg,
         faster |-> IF avg[1] < avg[2] THEN "onnx" ELSE "original"]

RunIdle ==
    /\ run_pc = "idle" /\ test_prompts = <<>> /\ test_configs = <<>>
    /\ config_idx = 0 /\ prompt_idx = 0
    /\ results = <<>> /\ calls = <<>> /\ summary = NoSummary

RunInit ==
    /\ run_pc = "loop"
    /\ test_prompts \in {PromptList(n) : n \in 1..MaxPrompts}
    /\ test_configs \in {ConfigList(n) : n \in 1..MaxConfigs}
    /\ config_idx = 1 /\ prompt_idx = 1
    /\ results = <<>> /\ calls = <<>> /\ summary = NoSummary

\* The index pair of the iteration after (c, p): the inner loop runs over the
\* prompts, the outer over the parameter sets.
NextIndexSkippingLast(c, p, n_prompts) ==
    IF p + 1 < n_prompts THEN <<c, p + 1>> ELSE <<c + 1, 1>>
NextIndex(c, p, n_prompts) ==
    IF p < n_prompts THEN <<c, p + 1>> ELSE <<c + 1, 1>>

\* One iteration of the inner loop: compare_responses(user_input, **config)
\* and results.append({**result, 'config': config}).
RunTest ==
    /\ run_pc = "loop"
    /\ \E case \in RunCases :
          LET config == test_configs[config_idx]
              user_input == test_prompts[prompt_idx]
              r == Comparison(user_input, generate_response(case.original),
                              generate_response(case.onnx),
                              case.original_time, case.onnx_time)
          IN  /\ results' = Append(results, WithConfig(r, config))
              /\ calls' = Append(calls, <<config, user_input>>)
    /\ LET nxt == NextIndex(config_idx, prompt_idx, Len(test_prompts))
       IN  /\ config_idx' = nxt[1]
           /\ prompt_idx' = nxt[2]
           /\ run_pc' = IF nxt[1] > Len(test_configs) THEN "summary" ELSE "loop"
    /\ UNCHANGED <<test_prompts, test_configs, summary, clean_vars, cmp_vars,
                   conv_vars>>

\* The summary statistics and the return of the results.
Summarise ==
    /\ run_pc = "summary"
    /\ summary' = Summary(results)
    /\ run_pc' = "returned"
    /\ UNCHANGED <<test_prompts, test_configs, config_idx, prompt_idx,
                   results, calls, clean_vars, cmp_vars, conv_vars>>

(***************************************************************************)
(* convert_smollm_official.py: the local artifact directory.               *)
(***************************************************************************)
Absent == [kind |-> "absent", files |-> {}]
EmptyDir == [kind |-> "dir", files |-> {}]

TokenizerFile == "tokenizer.json"
ConfigFile == "config.json"
ModelFile == "onnx/model.onnx"
ModelConfigFile == "onnx/config.json"

\* What a previous run may have left in the directory.
StaleFiles == {<<TokenizerFile, "stale">>, <<ConfigFile, "stale">>,
               <<ModelFile, "stale">>, <<"stale.bin", "stale">>}

InitialDirs ==
    {Absent, [kind |-> "file", files |-> {}]}
        \cup {[kind |-> "dir", files |-> fs] : fs \in SUBSET StaleFiles}

\* os.path.exists(local_path)
PathExists(d) == d.kind # "absent"

\* A file written (created or overwritten) by this run.
WriteFile(d, name, origin) ==
    [kind |-> d.kind,
     files |-> {f \in d.files : f[1] # name} \cup {<<name, origin>>}]

\* An outcome with raised TRUE is an exception raised in the call or, for an
\* interrupt, right before or right after it: every call has one with nothing
\* done and one with all its work done.

\* os.makedirs(local_path): raises when the path exists, and may fail.
makedirs(d) ==
    IF d.kind = "absent"
    THEN {[raised |-> FALSE, dir |-> EmptyDir], [raised |-> TRUE, dir |-> d],
          [raised |-> TRUE, dir |-> EmptyDir]}
    ELSE {[raised |-> TRUE, dir |-> d]}

\* shutil.rmtree(local_path): removes a directory with all it holds; raises on
\* a path that is no directory, and may fail part of the way.
rmtree(d) ==
    IF d.kind = "dir"
    THEN {[raised |-> FALSE, dir |-> Absent]}
             \cup {[raised |-> TRUE, dir |-> [kind |-> "dir", files |-> fs]] :
                      fs \in SUBSET d.files}
    ELSE {[raised |-> TRUE, dir |-> d]}

\* The directory reset: if os.path.exists(local_path): shutil.rmtree(local_path)
\* and then os.makedirs(local_path).
ResetDirectoryExistOk(d) ==
    IF d.kind = "file" THEN {[raised |-> TRUE, dir |-> d]}
    ELSE {[raised |-> FALSE, dir |-> [kind |-> "dir", files |-> d.files]],
          [raised |-> TRUE, dir |-> d]}
ResetDirectory(d) ==
    IF PathExists(d)
    THEN UNION {IF o.raised THEN {o} ELSE makedirs(o.dir) : o \in rmtree(d)}
    ELSE makedirs(d)

\* The export of the model and the loading of the tokenizer and of the
\* configuration: they give a tokenizer with or without a pad token, or raise
\* before or after the tokenizer is loaded.
ExportAndLoad ==
    {[raised |-> r, pad_token |-> t] : r \in BOOLEAN, t \in {None, "<pad>"}}
        \cup {[raised |-> TRUE, pad_token |-> "unset"]}

\* if tokenizer.pad_token is None: tokenizer.pad_token = tokenizer.eos_token
EnsurePadToken(t) == IF t = None THEN "<eos>" ELSE t

\* print("Saving ONNX model...") and tokenizer.save_pretrained(local_path)
SaveTokenizer(d) ==
    {[raised |-> FALSE, dir |-> WriteFile(d, TokenizerFile, "fresh")],
     [raised |-> TRUE, dir |-> d],
     [raised |-> TRUE, dir |-> WriteFile(d, TokenizerFile, "partial")],
     [raised |-> TRUE, dir |-> WriteFile(d, TokenizerFile, "fresh")]}

\* with open(os.path.join(local_path, "config.json"), 'w') as f: json.dump(...)
WriteConfigSwallowingErrors(d) ==
    {[raised |-> FALSE, dir |-> WriteFile(d, ConfigFile, "fresh")],
     [raised |-> FALSE, dir |-> d],
     [raised |-> FALSE, dir |-> WriteFile(d, ConfigFile, "partial")]}
WriteConfig(d) ==
    {[raised |-> FALSE, dir |-> WriteFile(d, ConfigFile, "fresh")],
     [raised |-> TRUE, dir |-> d],
     [raised |-> TRUE, dir |-> WriteFile(d, ConfigFile, "partial")],
     [raised |-> TRUE, dir |-> WriteFile(d, ConfigFile, "fresh")]}

\* os.makedirs(onnx_dir, exist_ok=True) and ort_model.save_pretrained(onnx_dir)
SaveModel(d) ==
    {[raised |-> FALSE,
      dir |-> WriteFile(WriteFile(d, ModelFile, "fresh"),
                        ModelConfigFile, "fresh")],
     [raised |-> TRUE, dir |-> d],
     [raised |-> TRUE, dir |-> WriteFile(d, ModelFile, "partial")],
     [raised |-> TRUE,
      dir |-> WriteFile(WriteFile(d, ModelFile, "fresh"),
                        ModelConfigFile, "fresh")]}

\* The directory holds the three artifacts a conversion writes.
ArtifactsComplete(d) ==
    /\ d.kind = "dir"
    /\ {<<TokenizerFile, "fresh">>, <<ConfigFile, "fresh">>,
        <<ModelFile, "fresh">>} \subseteq d.files

(***************************************************************************)
(* convert_original_smollm_to_onnx. The statements of the try block are    *)
(* taken one call at a time; a statement goes on to the next, raises into  *)
(* the except clause, or raises past it. Nothing at the top level of the   *)
(* script catches an exception: one that leaves a function ends the script *)
(* ("uncaught").                                                           *)
(***************************************************************************)
Sentinel == "sentinel"
Artifact == "artifact"

\* What a call may raise: an exception the clause "except Exception" catches,
\* or one it does not catch (KeyboardInterrupt on an interrupt signal,
\* SystemExit).
Caught == "Exception"
Escaping == "BaseException"
ExceptionClasses == {Caught, Escaping}

\* A print(...) call: it returns, or raises (standard output closed, an
\* interrupt).
StdoutWrite == {[raised |-> FALSE], [raised |-> TRUE]}

\* A statement of the try block with outcome o, raising (if it raises) an
\* exception of class cls: where the function is afterwards. "except
\* Exception" is entered with nothing returned yet.
Proceed(o, cls, step, next_pc) ==
    /\ local_dir' = o.dir
    /\ steps' = Append(steps, step)
    /\ IF o.raised
       THEN IF cls = Caught
            THEN conv_pc' = "convert_except" /\ raised' = TRUE
            ELSE conv_pc' = "uncaught" /\ UNCHANGED raised
       ELSE conv_pc' = next_pc /\ UNCHANGED raised

other_vars == <<clean_vars, cmp_vars, run_vars>>

\* print(f"Converting {source_repo} to ONNX..."), before the try block.
ConvertStart ==
    /\ conv_pc = "start"
    /\ \E p \in StdoutWrite :
          conv_pc' = IF p.raised THEN "uncaught" ELSE "reset"
    /\ steps' = Append(steps, "start")
    /\ UNCHANGED <<initial_dir, local_dir, pad_token, raised, ret, test_ret,
                   answer, upload_choice, upload_ret, remote, remote_calls,
                   other_vars>>

ConvertReset ==
    /\ conv_pc = "reset"
    /\ \E o \in ResetDirectory(local_dir), cls \in ExceptionClasses :
          Proceed(o, cls, "reset", "export")
    /\ UNCHANGED <<initial_dir, pad_token, ret, test_ret, answer,
                   upload_choice, upload_ret, remote, remote_calls, other_vars>>

ConvertExport ==
    /\ conv_pc = "export"
    /\ \E e \in ExportAndLoad, cls \in ExceptionClasses :
          /\ Proceed([raised |-> e.raised, dir |-> local_dir], cls, "export",
                     "save_tokenizer")
          /\ pad_token' = IF e.raised THEN e.pad_token
                          ELSE EnsurePadToken(e.pad_token)
    /\ UNCHANGED <<initial_dir, ret, test_ret, answer, upload_choice,
                   upload_ret, remote, remote_calls, other_vars>>

ConvertSaveTokenizer ==
    /\ conv_pc = "save_tokenizer"
    /\ \E o \in SaveTokenizer(local_dir), cls \in ExceptionClasses :
          Proceed(o, cls, "save_tokenizer", "write_config")
    /\ UNCHANGED <<initial_dir, pad_token, ret, test_ret, answer,
                   upload_choice, upload_ret, remote, remote_calls, other_vars>>

ConvertWriteConfig ==
    /\ conv_pc = "write_config"
    /\ \E o \in WriteConfig(local_dir), cls \in ExceptionClasses :
          Proceed(o, cls, "write_config", "save_model")
    /\ UNCHANGED <<initial_dir, pad_token, ret, test_ret, answer,
                   upload_choice, upload_ret, remote, remote_calls, other_vars>>

ConvertSaveModel ==
    /\ conv_pc = "save_model"
    /\ \E o \in SaveModel(local_dir), cls \in ExceptionClasses :
          Proceed(o, cls, "save_model", "convert_return")
    /\ UNCHANGED <<initial_dir, pad_token, ret, test_ret, answer,
                   upload_choice, upload_ret, remote, remote_calls, other_vars>>

\* print(f"ONNX conversion completed, ...") and return local_path,
\* target_repo: the last statements of the try block.
ConvertReturn ==
    /\ conv_pc = "convert_return"
    /\ \E p \in StdoutWrite, cls \in ExceptionClasses :
          /\ Proceed([raised |-> p.raised, dir |-> local_dir], cls,
                     "convert_return", "main")
          /\ ret' = IF p.raised THEN ret ELSE Artifact
    /\ UNCHANGED <<initial_dir, pad_token, test_ret, answer, upload_choice,
                   upload_ret, remote, remote_calls, other_vars>>

\* except Exception as e: print(...); traceback.print_exc();
\* return None, None. An exception raised here leaves the function.
ConvertExcept ==
    /\ conv_pc = "convert_except"
    /\ \E p \in StdoutWrite :
          IF p.raised
          THEN conv_pc' = "uncaught" /\ UNCHANGED ret
          ELSE conv_pc' = "main" /\ ret' = Sentinel
    /\ steps' = Append(steps, "convert_except")
    /\ UNCHANGED <<initial_dir, local_dir, pad_token, raised, test_ret,
                   answer, upload_choice, upload_ret, remote, remote_calls,
                   other_vars>>

(***************************************************************************)
(* test_onnx_model, upload and the script's __main__ block.                *)
(***************************************************************************)

\* test_onnx_model(local_path): loads the model and the tokenizer from the
\* directory and generates; True, or False when an exception of class
\* Exception was raised in the try block and the except clause returned. An
\* exception of the first print, of the except clause, or one "except
\* Exception" does not catch, leaves the function. The library calls are
\* local_files_only loads and a generation: they read the directory.
test_onnx_model(d) ==
    {[escaped |-> FALSE, ok |-> TRUE, dir |-> d],
     [escaped |-> FALSE, ok |-> FALSE, dir |-> d],
     [escaped |-> TRUE, ok |-> FALSE, dir |-> d]}

\* input("\nUpload to HF? (y/n): ") followed by .lower().strip()
\* The lines a user may type; the one but last starts with a vertical tab
\* (U+000B).
Answers == {<<"y">>, <<"Y">>, <<" ", "Y", " ">>, <<"y", "\t">>, <<"n">>,
            <<"y", "e", "s">>, <<>>, <<"N", "o">>,
            <<"", "Y", "U+3000">>, <<"U+0130">>}

\* input(...): a line, or an exception (EOFError when stdin is at its end,
\* KeyboardInterrupt); the statement is in no try block.
input ==
    {[raised |-> FALSE, line |-> l] : l \in Answers}
        \cup {[raised |-> TRUE, line |-> <<>>]}

NormaliseChoice(line) == Strip(Lower(line))

\* if upload_choice == 'y'
UploadChosenByPrefix(choice) == StartsWith(choice, <<"y">>)
UploadChosen(choice) == choice = <<"y">>

\* api = HfApi(): the first statement of upload's try block.
HfApi == {[raised |-> FALSE], [raised |-> TRUE]}

\* create_repo(repo_name, exist_ok=True)
create_repo(r) ==
    {[raised |-> FALSE, remote |-> [repo_exists |-> TRUE, files |-> r.files]],
     [raised |-> TRUE, remote |-> r],
     [raised |-> TRUE, remote |-> [repo_exists |-> TRUE, files |-> r.files]]}

\* api.upload_folder(folder_path=local_path, repo_id=repo_name, ...): the files
\* of the directory are sent in one commit; the call reads the directory.
upload_folder(d, r) ==
    {[raised |-> o.raised, dir |-> d,
      remote |-> [repo_exists |-> TRUE,
                  files |-> r.files \cup {f[1] : f \in d.files}]] :
        o \in {[raised |-> FALSE], [raised |-> TRUE]}}
        \cup {[raised |-> TRUE, dir |-> d, remote |-> r]}

\* What upload's except clause (print(f"Upload failed: {e}"); return False)
\* does to the local directory: nothing.
upload_except_removing(d) == Absent
upload_except(d) == d

\* What test_onnx_model's except clause (print, traceback.print_exc(),
\* return False) does to the local directory: nothing.
test_except(d) == d

\* if local_path and target_repo: ... else: print("\nONNX conversion failed")
MainCheck ==
    /\ conv_pc = "main"
    /\ conv_pc' = IF ret = Artifact THEN "test" ELSE "report"
    /\ steps' = Append(steps, "main")
    /\ UNCHANGED <<initial_dir, local_dir, pad_token, raised, ret, test_ret,
                   answer, upload_choice, upload_ret, remote, remote_calls,
                   other_vars>>

\* if test_onnx_model(local_path): ... else: print("... tests failed")
\* An exception that leaves test_onnx_model ends the script.
MainTest ==
    /\ conv_pc = "test"
    /\ \E t \in test_onnx_model(local_dir) :
          /\ local_dir' = IF t.ok THEN t.dir ELSE test_except(t.dir)
          /\ IF t.escaped
             THEN conv_pc' = "uncaught" /\ UNCHANGED test_ret
             ELSE /\ test_ret' = IF t.ok THEN "True" ELSE "False"
                  /\ conv_pc' = IF t.ok THEN "prompt" ELSE "report"
    /\ steps' = Append(steps, "test")
    /\ UNCHANGED <<initial_dir, pad_token, raised, ret, answer, upload_choice,
                   upload_ret, remote, remote_calls, other_vars>>

\* upload_choice = input(...).lower().strip(); if upload_choice == 'y': ...
\* An exception of input() ends the script.
MainPrompt ==
    /\ conv_pc = "prompt"
    /\ \E i \in input :
          IF i.raised
          THEN /\ conv_pc' = "uncaught"
               /\ UNCHANGED <<answer, upload_choice>>
          ELSE /\ answer' = i.line
               /\ upload_choice' = NormaliseChoice(i.line)
               /\ conv_pc' = IF UploadChosen(NormaliseChoice(i.line))
                             THEN "create_repo" ELSE "report"
    /\ steps' = Append(steps, "prompt")
    /\ UNCHANGED <<initial_dir, local_dir, pad_token, raised, ret, test_ret,
                   upload_ret, remote, remote_calls, other_vars>>

\* How a statement of upload's try block that raised an exception of class
\* cls leaves the block: into "except Exception", or out of the function.
UploadRaised(cls) ==
    conv_pc' = IF cls = Caught THEN "upload_except" ELSE "uncaught"

\* upload: print(f"Uploading model to {repo_name}") before the try block, then
\* api = HfApi() and create_repo(repo_name, exist_ok=True).
UploadCreateRepo ==
    /\ conv_pc = "create_repo"
    /\ \E p \in StdoutWrite, h \in HfApi, cls \in ExceptionClasses :
          IF p.raised
          THEN conv_pc' = "uncaught" /\ UNCHANGED <<remote, remote_calls>>
          ELSE IF h.raised
               THEN UploadRaised(cls) /\ UNCHANGED <<remote, remote_calls>>
               ELSE /\ remote_calls' = Append(remote_calls, "create_repo")
                    /\ \E o \in create_repo(remote) :
                          /\ remote' = o.remote
                          /\ IF o.raised
                             THEN UploadRaised(cls)
                             ELSE conv_pc' = "upload_folder"
    /\ steps' = Append(steps, "upload")
    /\ UNCHANGED <<initial_dir, local_dir, pad_token, raised, ret, test_ret,
                   answer, upload_choice, upload_ret, other_vars>>

\* upload: api.upload_folder(...)
UploadUploadFolder ==
    /\ conv_pc = "upload_folder"
    /\ \E o \in upload_folder(local_dir, remote), cls \in ExceptionClasses :
          /\ remote' = o.remote
          /\ local_dir' = o.dir
          /\ IF o.raised
             THEN UploadRaised(cls)
             ELSE conv_pc' = "upload_return"
    /\ remote_calls' = Append(remote_calls, "upload_folder")
    /\ steps' = Append(steps, "upload_folder")
    /\ UNCHANGED <<initial_dir, pad_token, raised, ret, test_ret, answer,
                   upload_choice, upload_ret, other_vars>>

\* upload: print(f"Model uploaded to: ...") and return True, the last
\* statements of the try block.
UploadReturn ==
    /\ conv_pc = "upload_return"
    /\ \E p \in StdoutWrite, cls \in ExceptionClasses :
          IF p.raised
          THEN UploadRaised(cls) /\ UNCHANGED upload_ret
          ELSE conv_pc' = "report" /\ upload_ret' = "True"
    /\ steps' = Append(steps, "upload_return")
    /\ UNCHANGED <<initial_dir, local_dir, pad_token, raised, ret, test_ret,
                   answer, upload_choice, remote, remote_calls, other_vars>>

\* upload: except Exception as e: print(f"Upload failed: {e}"); return False
\* An exception raised here leaves the function.
UploadExcept ==
    /\ conv_pc = "upload_except"
    /\ local_dir' = upload_except(local_dir)
    /\ \E p \in StdoutWrite :
          IF p.raised
          THEN conv_pc' = "uncaught" /\ UNCHANGED upload_ret
          ELSE conv_pc' = "report" /\ upload_ret' = "False"
    /\ steps' = Append(steps, "upload_except")
    /\ UNCHANGED <<initial_dir, pad_token, raised, ret, test_ret, answer,
                   upload_choice, remote, remote_calls, other_vars>>

\* The prints that end a run: "Completed", "Conversion successful but upload
\* failed", "ONNX conversion completed locally", "Conversion completed but
\* tests failed" or "ONNX conversion failed", with the path where one is shown.
MainReport ==
    /\ conv_pc = "report"
    /\ \E p \in StdoutWrite :
          conv_pc' = IF p.raised THEN "uncaught" ELSE "done"
    /\ steps' = Append(steps, "report")
    /\ UNCHANGED <<initial_dir, local_dir, pad_token, raised, ret, test_ret,
                   answer, upload_choice, upload_ret, remote, remote_calls,
                   other_vars>>

ConvertIdle ==
    /\ conv_pc = "idle" /\ initial_dir = Absent /\ local_dir = Absent
    /\ pad_token = "unset" /\ raised = FALSE /\ ret = None /\ test_ret = None
    /\ answer = <<>> /\ upload_choice = <<>> /\ upload_ret = None
    /\ remote = [repo_exists |-> FALSE, files |-> {}]
    /\ remote_calls = <<>> /\ steps = <<>>

ConvertInit ==
    /\ conv_pc = "start"
    /\ initial_dir \in InitialDirs /\ local_dir = initial_dir
    /\ pad_token = "unset" /\ raised = FALSE /\ ret = None /\ test_ret = None
    /\ answer = <<>> /\ upload_choice = <<>> /\ upload_ret = None
    /\ remote \in [repo_exists : BOOLEAN, files : {{}}]
    /\ remote_calls = <<>> /\ steps = <<>>

(***************************************************************************)
(* Specifications.                                                         *)
(***************************************************************************)
InitClean == CleanInit /\ CompareIdle /\ RunIdle /\ ConvertIdle
SpecClean == InitClean /\ [][ApplyClean]_vars

InitCompare == CleanIdle /\ CompareInit /\ RunIdle /\ ConvertIdle
SpecCompare == InitCompare /\ [][compare_responses]_vars

InitRun == CleanIdle /\ CompareIdle /\ RunInit /\ ConvertIdle
run_comprehensive_test == RunTest \/ Summarise
SpecRun == InitRun /\ [][run_comprehensive_test]_vars

InitConvert == CleanIdle /\ CompareIdle /\ RunIdle /\ ConvertInit
ConvertNext ==
    \/ ConvertStart \/ ConvertReset \/ ConvertExport \/ ConvertSaveTokenizer
    \/ ConvertWriteConfig \/ ConvertSaveModel \/ ConvertReturn
    \/ ConvertExcept
    \/ MainCheck \/ MainTest \/ MainPrompt
    \/ UploadCreateRepo \/ UploadUploadFolder \/ UploadReturn \/ UploadExcept
    \/ MainReport
SpecConvert == InitConvert /\ [][ConvertNext]_vars

\* The statements at which the script waits for the outside with no
\* timeout: the export (it downloads the source model), input(), and the
\* two calls of the registry. The script may stay there for ever.
WaitingCalls == {"export", "prompt", "create_repo", "upload_folder"}

\* The script is sequential: a statement that waits for nothing outside is
\* executed. It has ended at "done" and, after an exception no clause caught,
\* at "uncaught".
FairConvert ==
    SpecConvert /\ WF_vars(ConvertNext /\ conv_pc \notin WaitingCalls)

(***************************************************************************)
(* Properties of the cleaning.                                             *)
(***************************************************************************)

\* C1: the cleaning is idempotent: applied to its own result it returns that
\* result, so after two or more applications the value is still Clean(raw).
CleanIdempotent == applications >= 2 => cleaned = Clean(raw)

\* C2: the result of the cleaning holds neither role marker as a substring and
\* no newline character.
CleanedHasNoMarkerNoNewline ==
    applications = 1 =>
        /\ ~Contains(cleaned, ImStart)
        /\ ~Contains(cleaned, ImEnd)
        /\ \A i \in 1..Len(cleaned) : cleaned[i] # "\n"

\* A string that is a concatenation of role markers and nothing else.
RECURSIVE OnlyMarkers(_)
OnlyMarkers(s) ==
    \/ s = <<>>
    \/ StartsWith(s, ImStart) /\ OnlyMarkers(Drop(s, Len(ImStart) + 1))
    \/ StartsWith(s, ImEnd) /\ OnlyMarkers(Drop(s, Len(ImEnd) + 1))

\* C9: the cleaning of the response "<|im_start|>Assistant\nParis is the
\* capital.<|im_end|>\nExtra line" is "Paris is the capital.", of the empty
\* string the empty string, and of a string of role markers only the empty
\* string.
CleanExamples ==
    applications = 1 =>
        /\ raw = ParisResponse => cleaned = ParisLine
        /\ raw = <<>> => cleaned = <<>>
        /\ OnlyMarkers(raw) => cleaned = <<>>

CleanExamplesWitness ==
    applications = 1 /\ raw = ParisResponse /\ cleaned = ParisLine

(***************************************************************************)
(* Properties of compare_responses.                                        *)
(***************************************************************************)

\* C3: in a returned comparison exact_match is true exactly when the two
\* cleaned strings are identical, each cleaned string being the cleaning of
\* its raw response; the raw responses do not decide the flag.
ExactMatchIffCleanedEqual ==
    cmp_pc = "returned" =>
        LET r == result[1]
        IN  /\ r.original_cleaned = Clean(r.original_response)
            /\ r.onnx_cleaned = Clean(r.onnx_response)
            /\ r.exact_match <=> (r.original_cleaned = r.onnx_cleaned)

ExactMatchWitness ==
    /\ cmp_pc = "returned"
    /\ result[1].exact_match
    /\ result[1].original_response # result[1].onnx_response

\* C10: when exact_match is false one of the two word sets is not empty (a
\* cleaned string is empty or begins with a character that is no whitespace),
\* so the similarity is computed, not skipped, and its denominator is not 0.
SimilarityAlwaysComputed ==
    cmp_pc = "returned" =>
        LET r == result[1]
        IN  /\ \A c \in {r.original_cleaned, r.onnx_cleaned} :
                   c = <<>> \/ c[1] \notin Whitespace
            /\ ~r.exact_match =>
                   /\ WordSet(r.original_cleaned) # {}
                          \/ WordSet(r.onnx_cleaned) # {}
                   /\ printed.branch = "jaccard"
                   /\ printed.jaccard # <<>>
                   /\ printed.jaccard[2] > 0

SimilarityWitness ==
    /\ cmp_pc = "returned"
    /\ ~result[1].exact_match
    /\ result[1].original_cleaned = <<>>
    /\ printed.branch = "jaccard"
    /\ printed.jaccard = <<0, 1>>

(***************************************************************************)
(* Properties of run_comprehensive_test.                                   *)
(***************************************************************************)

\* C8: the run calls compare_responses once for each pair of a parameter set
\* and a prompt, returns one result per pair, each with the parameter set it
\* ran with, and the summary counts the results and those whose exact_match
\* is true (1/1 or 0/1 for one prompt and one parameter set).
OneResultPerPair ==
    run_pc = "returned" =>
        /\ Len(results) = Len(test_prompts) * Len(test_configs)
        /\ Len(calls) = Len(results)
        /\ \A c \in 1..Len(test_configs), p \in 1..Len(test_prompts) :
               Cardinality({i \in 1..Len(calls) :
                   calls[i] = <<test_configs[c], test_prompts[p]>>}) = 1
        /\ \A i \in 1..Len(results) :
               /\ results[i].config = calls[i][1]
               /\ results[i].user_input = calls[i][2]
        /\ summary.total_tests = Len(results)
        /\ summary.exact_matches =
               Cardinality({i \in 1..Len(results) : results[i].exact_match})
        /\ Len(results) = 1 =>
               summary.exact_matches = (IF results[1].exact_match THEN 1 ELSE 0)

OneResultWitness ==
    /\ run_pc = "returned"
    /\ Len(test_prompts) = 1 /\ Len(test_configs) = 1
    /\ Len(results) = 1
    /\ results[1].exact_match
    /\ results[1].original_response # results[1].onnx_response
    /\ summary.exact_matches = 1 /\ summary.total_tests = 1

(***************************************************************************)
(* Properties of the conversion script.                                    *)
(***************************************************************************)

\* The number of times a step was executed.
Times(step) == Cardinality({i \in 1..Len(steps) : steps[i] = step})

\* C4: when the destination directory exists as the conversion starts, after
\* a return other than the sentinel it holds no file it held before: the
\* directory is reset before anything is written, and every file in it was
\* written by this run.
CleanSlate ==
    (initial_dir.kind = "dir" /\ ret = Artifact) =>
        /\ local_dir.files \cap initial_dir.files = {}
        /\ \A f \in local_dir.files : f[2] = "fresh"
        /\ SubSeq(steps, 1, 6) = <<"start", "reset", "export", "save_tokenizer",
                                   "write_config", "save_model">>

CleanSlateWitness ==
    /\ ret = Artifact
    /\ {<<"stale.bin", "stale">>, <<ConfigFile, "stale">>}
           \subseteq initial_dir.files

\* The steps of the conversion, and the statements of the function.
ConversionSteps ==
    {"reset", "export", "save_tokenizer", "write_config", "save_model"}
ConversionStatements ==
    {"start", "convert_return", "convert_except"} \cup ConversionSteps

\* No statement of the script is executed twice.
NoStepRepeated == \A i, j \in 1..Len(steps) : i # j => steps[i] # steps[j]

\* One of the five steps raised into the except clause: the clause was
\* entered before the print that follows the model save.
StepRaised == raised /\ Times("convert_return") = 0

\* C5 as claimed: the conversion repeats no step and lets no exception out:
\* it returns the sentinel exactly when a step raised, and otherwise returns
\* the path and the repository with the tokenizer file, config.json and the
\* model under onnx/ all in the directory.
ConversionNeverEscapes ==
    /\ NoStepRepeated
    /\ ret = None => conv_pc \in {"idle"} \cup ConversionStatements
    /\ ret # None => (ret = Sentinel <=> StepRaised)
    /\ ret = Artifact => ArtifactsComplete(local_dir)

\* C5 amended: the conversion repeats no step. When it returns, it returns
\* the sentinel exactly when a statement of its try block (a step or one of
\* the two prints) raised an exception the except clause caught, and
\* otherwise the path and the repository with the three artifacts in the
\* directory. An exception leaves the function, which then returns nothing
\* and ends the script, only from the print before the try block, from a
\* statement of the try block when the clause does not catch it, or from the
\* except clause itself.
ConversionAllOrNothing ==
    /\ NoStepRepeated
    /\ ret # None => (ret = Sentinel <=> raised)
    /\ ret = Artifact => ArtifactsComplete(local_dir)
    /\ ret = None => conv_pc \in {"idle", "uncaught"} \cup ConversionStatements
    /\ (ret = None /\ conv_pc = "uncaught") =>
           /\ steps # <<>> /\ steps[Len(steps)] \in ConversionStatements
           /\ raised <=> steps[Len(steps)] = "convert_except"
           /\ test_ret = None /\ answer = <<>> /\ remote_calls = <<>>

ConversionFailedWitness ==
    /\ ret = Sentinel /\ raised
    /\ steps = <<"start", "reset", "export", "save_tokenizer", "write_config",
                 "convert_except">>
    /\ <<ConfigFile, "partial">> \in local_dir.files

\* A statement of the smoke test, of the prompt, of the upload or of the
\* closing report leaves the directory as it was.
ArtifactKept ==
    conv_pc \in {"test", "prompt", "create_repo", "upload_folder",
                 "upload_return", "upload_except", "report"}
        => local_dir' = local_dir

StepsAtMostOnce ==
    /\ Times("start") <= 1 /\ Times("reset") <= 1
    /\ Times("test") <= 1 /\ Times("upload") <= 1

\* C6 as claimed: every run of the script ends normally, having run the
\* conversion, the smoke test and the upload at most once each, and neither
\* the smoke test nor the upload changes the local artifact directory, also
\* when it fails.
RunEndsNormally ==
    /\ [](conv_pc # "uncaught")
    /\ <>(conv_pc = "done")
    /\ []StepsAtMostOnce
    /\ [][ArtifactKept]_vars

\* C6 amended: the conversion, the smoke test and the upload run at most once
\* each; every run ends, normally or with an exception uncaught, unless it
\* waits for ever at the export's download, at input() or at a call of the
\* registry; and the smoke test, the prompt, the upload and the closing
\* report leave the local artifact directory as it was, also when they fail
\* or end the script.
RunEndsArtifactKept ==
    /\ <>(conv_pc \in {"done", "uncaught"}) \/ <>[](conv_pc \in WaitingCalls)
    /\ []StepsAtMostOnce
    /\ [][ArtifactKept]_vars

UploadFailedWitness ==
    /\ conv_pc = "done"
    /\ upload_ret = "False"
    /\ steps[Len(steps) - 1] = "upload_except"
    /\ remote_calls = <<"create_repo", "upload_folder">>
    /\ ArtifactsComplete(local_dir)

\* C7: the registry is called only after the conversion returned an artifact,
\* the smoke test passed, the prompt was shown and the answer, lower-cased and
\* stripped, was 'y'; otherwise no repository is created and nothing uploaded.
UploadGated ==
    /\ (remote_calls # <<>> \/ Times("upload") > 0) =>
           /\ ret = Artifact
           /\ test_ret = "True"
           /\ \E i, j \in 1..Len(steps) :
                  i < j /\ steps[i] = "prompt" /\ steps[j] = "upload"
           /\ Strip(Lower(answer)) = <<"y">>
    /\ remote_calls = <<>> => remote.files = {}
    /\ (conv_pc \in {"done", "uncaught"}
            /\ (ret # Artifact \/ Strip(Lower(answer)) # <<"y">>))
           => remote_calls = <<>>

UploadGatedWitness ==
    /\ remote_calls = <<"create_repo", "upload_folder">>
    /\ answer = <<"", "Y", "U+3000">>
    /\ upload_ret = "True"

====
